---- MODULE Spec2Model ----
(***************************************************************************)
(* State-machine model of the PeerVer2 workflow engine:                    *)
(*   workflow/node.py        (generate / regenerate / evaluate / analyze)  *)
(*   workflow/conditions.py  (routing functions)                           *)
(*   workflow/manager.py     (submit_review, report generation)            *)
(*   core/code_evaluation.py, core/student_response_evaluator.py           *)
(*   ui/components/code_generator.py, ui/components/code_display.py        *)
(* The WorkflowState object is the record `state`; the text-generation     *)
(* backend is an environment whose replies are chosen nondeterministically.*)
(*                                                                         *)
(* Dictionary keys are written through t() in the source.  With the        *)
(* English table (language/en.py) t("valid") = "Valid" while               *)
(* t("missing_errors") = "missing_errors", so a dictionary can hold both   *)
(* a "valid" and a "Valid" entry; both are kept as separate record fields. *)
(***************************************************************************)
EXTENDS Integers, Sequences, FiniteSets, TLC

(* ------------------------------ bounds --------------------------------- *)
\* largest max_evaluation_attempts explored (program default: 5)
MaxEvalBudget == 3
\* the evaluation budget of the whole-exercise specification
ExerciseEvalBudget == 2
\* largest max_iterations explored (program default: 3)
MaxIterBudget == 2
\* cap on the number of reviews accepted into review_history
MaxSubmissions == 3

(* --------------------------- Python values ----------------------------- *)
\* Python values that are not modelled dictionaries carry a "py" tag
NoneVal == [py |-> "None"]
\* evaluate_code / evaluate_review return a str instead of a dict on failure
EmptyStr == [py |-> "str", text |-> ""]
NoLlmStr == [py |-> "str", text |-> "// Error: No LLM available for code generation"]
EmptyDict == [py |-> "dict"]
\* WorkflowState.error when unset
NoError == "None"

IsNone(v) == "py" \in DOMAIN v /\ v.py = "None"
IsStr(v) == "py" \in DOMAIN v /\ v.py = "str"
\* isinstance(v, dict) for the values an evaluator can return
IsDict(v) == ~IsNone(v) /\ ~IsStr(v)

(* ------------------------- defect descriptors -------------------------- *)
\* catalogue entries carry Category / error_name (no "type", no "name")
E1 == [category |-> "LOGICAL", error_name |-> "a"]
E2 == [category |-> "SYNTAX", error_name |-> "b"]
E3 == [category |-> "LOGICAL", error_name |-> "c"]
E4 == [category |-> "SYNTAX", error_name |-> "d"]
E5 == [category |-> "LOGICAL", error_name |-> "e"]

\* canonical "TYPE - Name" strings are modelled as records [type, name]
K1 == [type |-> "LOGICAL", name |-> "a"]
K2 == [type |-> "SYNTAX", name |-> "b"]
\* an entry naming a defect that was never requested
KX == [type |-> "OTHER", name |-> "x"]
\* t("extraction_failed"): a string without " - ", the regex does not match it
ExtractionFailed == [raw |-> "EXTRACTION_FAILED"]

\* identity key (category, name) of a requested descriptor
IdentityKey(e) == [type |-> e.category, name |-> e.error_name]

\* error.get(field, "")
DescriptorGet(e, field) == IF field \in DOMAIN e THEN e[field] ELSE ""

\* f"{error.get('type', '').upper()} - {error.get('name', '')}"
RequestedKeyString(e) ==
    [type |-> DescriptorGet(e, "type"), name |-> DescriptorGet(e, "name")]

\* re.search(r'([A-Z]+)\s*-\s*([^:]+)', str(error)) succeeds, or the entry is
\* a dict with non-empty "Error Type" and "Error Name"
EntryIsUsable(x) == "raw" \notin DOMAIN x

RECURSIVE ProcessEntries(_)
ProcessEntries(s) ==
    IF s = <<>> THEN <<>>
    ELSE IF EntryIsUsable(Head(s)) THEN <<Head(s)>> \o ProcessEntries(Tail(s))
         ELSE ProcessEntries(Tail(s))

Range(s) == {s[i] : i \in 1..Len(s)}

(* --------------------- inputs chosen by the environment ---------------- *)
\* what the user committed to: specific picks, or a category selection for
\* which the catalogue returns a (possibly empty) list
SpecificPicks == {<<E1>>, <<E1, E2>>}
CatalogueOutputs == {<<>>, <<E1>>, <<E1, E2>>}
\* get_errors_for_llm samples at random and cuts at its own adjusted count:
\* also a list of exactly the required length and a longer one
CatalogueOutputsAdvance ==
    CatalogueOutputs \cup {<<E1, E2, E3, E4>>, <<E5, E4, E3, E2, E1>>}
Selections ==
    {[mode |-> "specific", specific |-> s, categories |-> FALSE] : s \in SpecificPicks}
    \cup {[mode |-> "advanced", specific |-> <<>>, categories |-> TRUE],
          [mode |-> "advanced", specific |-> <<>>, categories |-> FALSE]}

\* replies of the generation backend
\* "code": an annotated and a clean block; "nocode": no block at all;
\* "tagged" / "tagline": an annotated block only
GenReplies == {"code", "nocode", "tagged", "tagline"}
RegenReplies == {"code", "nocode", "raise"}

\* entry lists a verifier reply may carry
EntryLists == {<<>>, <<K1>>, <<K2>>, <<K1, K2>>, <<K1, K1>>, <<KX>>}
EvalReplies ==
    {[kind |-> k, found |-> <<>>, missing |-> <<>>] : k \in {"raise", "empty", "garbage"}}
    \cup {[kind |-> "json", found |-> f, missing |-> m] : f \in EntryLists, m \in EntryLists}

(* --------------------- core/code_evaluation.py ------------------------- *)
_extract_json_from_response(reply) ==
    IF reply.kind = "empty" THEN NoneVal
    ELSE IF reply.kind = "garbage"
         THEN [found_errors |-> <<>>, missing_errors |-> <<ExtractionFailed>>]
         ELSE [found_errors |-> reply.found, missing_errors |-> reply.missing]

\* variant: "Valid" follows the number of found errors alone
_process_evaluation_result_CountOnly(result, requested_errors) ==
    LET r == IF IsNone(result)
             THEN [found_errors |-> <<>>, missing_errors |-> <<>>]
             ELSE result
        processed_found_errors == ProcessEntries(r.found_errors)
        processed_missing_errors == ProcessEntries(r.missing_errors)
    IN [found_errors |-> processed_found_errors,
        missing_errors |-> processed_missing_errors,
        Valid |-> (Len(processed_found_errors) = Len(requested_errors)),
        valid |-> FALSE]

_process_evaluation_result(result, requested_errors) ==
    LET r == IF IsNone(result)
             THEN [found_errors |-> <<>>, missing_errors |-> <<>>]
             ELSE result
        processed_found_errors == ProcessEntries(r.found_errors)
        processed_missing_errors == ProcessEntries(r.missing_errors)
    IN [found_errors |-> processed_found_errors,
        missing_errors |-> processed_missing_errors,
        Valid |-> (Len(processed_missing_errors) = 0
                   /\ Len(processed_found_errors) = Len(requested_errors)),
        valid |-> FALSE]

evaluate_code(hasLlm, reply, requested_errors) ==
    IF ~hasLlm THEN NoLlmStr
    ELSE IF reply.kind = "raise" THEN EmptyStr
    ELSE _process_evaluation_result(_extract_json_from_response(reply), requested_errors)

(* ------------------------- workflow/node.py ---------------------------- *)
\* get_error_count_from_state(difficulty_level): the difficulty string is
\* passed as `state`, so every getattr misses and the "medium" default applies
RequiredErrorCount == 4

CodeSnippet(code, clean_code, raw_errors, expected_error_count) ==
    [code |-> code, clean_code |-> clean_code, raw_errors |-> raw_errors,
     expected_error_count |-> expected_error_count]

(* ------------- utils/code_utils.py: extract_both_code_versions --------- *)
\* code is a sequence of lines, a line a sequence of tokens; "tag" stands
\* for the marker // ERROR: and "sp" for white space
NoCode == <<>>
JavaPlain == <<"code">>
JavaIndented == <<"sp", "code", "sp">>
JavaTagged == <<"sp", "code", "sp", "tag", "word">>
JavaTagOnly == <<"sp", "tag", "word">>

\* the ```java-annotated block of a reply
AnnotatedBlock(response) ==
    CASE response = "code" -> <<JavaPlain>>
      [] response = "tagged" -> <<JavaPlain, JavaTagged, JavaIndented>>
      [] response = "tagline" -> <<JavaPlain, JavaTagOnly, JavaTagged>>
      [] OTHER -> NoCode

\* the ```java-clean block of a reply
CleanBlock(response) ==
    IF response = "code" THEN <<JavaPlain>> ELSE NoCode

HasTag(line) == \E i \in 1..Len(line) : line[i] = "tag"

\* line.find("// ERROR:")
TagIndex(line) == CHOOSE i \in 1..Len(line) :
                    line[i] = "tag" /\ \A j \in 1..(i - 1) : line[j] # "tag"

RECURSIVE RStrip(_)
RStrip(line) ==
    IF line # <<>> /\ line[Len(line)] = "sp"
    THEN RStrip(SubSeq(line, 1, Len(line) - 1))
    ELSE line

\* the loop that builds clean_lines from the annotated code
RECURSIVE CleanLines(_)
CleanLines(lines) ==
    IF lines = <<>> THEN <<>>
    ELSE LET line == Head(lines)
             rest == CleanLines(Tail(lines))
         IN IF HasTag(line)
            THEN LET cleaned_line == RStrip(SubSeq(line, 1, TagIndex(line) - 1))
                 IN IF cleaned_line # <<>> THEN <<cleaned_line>> \o rest ELSE rest
            ELSE <<line>> \o rest

extract_both_code_versions(response) ==
    LET annotated_code == AnnotatedBlock(response)
        clean_code == CleanBlock(response)
    IN [annotated_code |-> annotated_code,
        clean_code |-> IF annotated_code # NoCode /\ clean_code = NoCode
                       THEN CleanLines(annotated_code)
                       ELSE clean_code]

\* extract_both_code_versions applied to the generation reply; without a
\* backend _generate_with_llm returns a comment line holding no code fence
ExtractedCode(hasLlm, genReply) ==
    IF hasLlm THEN extract_both_code_versions(genReply).annotated_code ELSE NoCode

ExtractedClean(hasLlm, genReply) ==
    IF hasLlm THEN extract_both_code_versions(genReply).clean_code ELSE NoCode

_extract_requested_errors(st) ==
    IF IsNone(st.code_snippet) THEN <<>> ELSE st.code_snippet.raw_errors

\* variant: category mode always records the required count
generate_code_node_RequiredCount(st, hasLlm, catalogue, genReply) ==
    LET reset == [st EXCEPT !.evaluation_attempts = 0,
                            !.evaluation_result = NoneVal]
        using_specific_errors == Len(st.selected_specific_errors) > 0
        selected_errors ==
            IF using_specific_errors THEN st.selected_specific_errors
            ELSE IF Len(catalogue) > RequiredErrorCount
                 THEN SubSeq(catalogue, 1, RequiredErrorCount)
                 ELSE catalogue
        original_error_count ==
            IF using_specific_errors THEN Len(selected_errors)
            ELSE RequiredErrorCount
    IN IF ~using_specific_errors /\ ~st.selected_error_categories
       THEN [reset EXCEPT !.error = "no_categories"]
       ELSE [reset EXCEPT
               !.code_snippet = CodeSnippet(ExtractedCode(hasLlm, genReply),
                                            ExtractedClean(hasLlm, genReply),
                                            selected_errors, original_error_count),
               !.original_error_count = original_error_count,
               !.current_step = "evaluate"]

generate_code_node(st, hasLlm, catalogue, genReply) ==
    LET reset == [st EXCEPT !.evaluation_attempts = 0,
                            !.evaluation_result = NoneVal]
        using_specific_errors == Len(st.selected_specific_errors) > 0
        selected_errors ==
            IF using_specific_errors THEN st.selected_specific_errors
            ELSE IF Len(catalogue) > RequiredErrorCount
                 THEN SubSeq(catalogue, 1, RequiredErrorCount)
                 ELSE catalogue
        original_error_count ==
            IF using_specific_errors THEN Len(selected_errors)
            ELSE IF Len(catalogue) < RequiredErrorCount THEN Len(catalogue)
                 ELSE RequiredErrorCount
    IN IF ~using_specific_errors /\ ~st.selected_error_categories
       THEN [reset EXCEPT !.error = "no_categories"]
       ELSE [reset EXCEPT
               !.code_snippet = CodeSnippet(ExtractedCode(hasLlm, genReply),
                                            ExtractedClean(hasLlm, genReply),
                                            selected_errors, original_error_count),
               !.original_error_count = original_error_count,
               !.current_step = "evaluate"]

\* variant: the exception handler also moves the run on to "evaluate"
regenerate_code_node_StepOnError(st, hasLlm, catalogue, regenReply) ==
    IF hasLlm
    THEN IF regenReply = "raise"
         THEN [st EXCEPT !.error = "Error regenerating code",
                         !.current_step = "evaluate"]
         ELSE [st EXCEPT
                 !.code_snippet = CodeSnippet(ExtractedCode(hasLlm, regenReply),
                                              ExtractedClean(hasLlm, regenReply),
                                              _extract_requested_errors(st), 0),
                 !.current_step = "evaluate"]
    ELSE generate_code_node(st, hasLlm, catalogue, regenReply)

regenerate_code_node(st, hasLlm, catalogue, regenReply) ==
    IF hasLlm
    THEN IF regenReply = "raise"
         THEN [st EXCEPT !.error = "Error regenerating code"]
         ELSE [st EXCEPT
                 !.code_snippet = CodeSnippet(ExtractedCode(hasLlm, regenReply),
                                              ExtractedClean(hasLlm, regenReply),
                                              _extract_requested_errors(st), 0),
                 !.current_step = "evaluate"]
    ELSE generate_code_node(st, hasLlm, catalogue, regenReply)

\* the step evaluate_code_node stores from the "Valid" entry, the number of
\* missing errors and the attempt counter after its increment
\* variant: one attempt of the budget is held back
EvaluateDecision_HoldBack(validT, missing_count, attempts, max_attempts) ==
    IF validT THEN "review"
    ELSE IF missing_count > 0 /\ attempts + 1 < max_attempts THEN "regenerate"
    ELSE "review"

EvaluateDecision(validT, missing_count, attempts, max_attempts) ==
    IF validT THEN "review"
    ELSE IF missing_count > 0 /\ attempts < max_attempts THEN "regenerate"
    ELSE "review"

evaluate_code_node(st, hasLlm, reply) ==
    IF IsNone(st.code_snippet)
    THEN [st EXCEPT !.error = "no_code_snippet_evaluation"]
    ELSE
    LET requested_errors == _extract_requested_errors(st)
        requested_count == Len(requested_errors)
        fromSnippet == IF st.original_error_count = 0
                       THEN st.code_snippet.expected_error_count
                       ELSE st.original_error_count
        original_error_count == IF fromSnippet = 0 THEN requested_count
                                ELSE fromSnippet
        raw_evaluation_result == evaluate_code(hasLlm, reply, requested_errors)
        evaluation_result ==
            IF ~IsDict(raw_evaluation_result)
            THEN [found_errors |-> <<>>,
                  missing_errors |-> [i \in 1..requested_count |->
                                        RequestedKeyString(requested_errors[i])],
                  Valid |-> FALSE,
                  valid |-> FALSE]
            ELSE [raw_evaluation_result EXCEPT
                    !.valid = ~(Len(raw_evaluation_result.missing_errors) > 0)]
        attempts == st.evaluation_attempts + 1
        missing_count == Len(evaluation_result.missing_errors)
    IN [st EXCEPT
          !.original_error_count = original_error_count,
          !.evaluation_result = evaluation_result,
          !.evaluation_attempts = attempts,
          !.current_step = EvaluateDecision(evaluation_result.Valid, missing_count,
                                            attempts, st.max_evaluation_attempts)]

(* ----------------------- workflow/conditions.py ------------------------ *)
\* variant: the attempt budget compared with <= instead of <
should_regenerate_or_review_AtMost(st) ==
    LET evaluation_result == st.evaluation_result
        has_result == ~IsNone(evaluation_result)
        has_missing_errors == has_result /\ Len(evaluation_result.missing_errors) > 0
    IN IF st.current_step = "regenerate" THEN "regenerate_code"
       ELSE IF has_result /\ evaluation_result.valid THEN "review_code"
       ELSE IF has_missing_errors /\ st.evaluation_attempts <= st.max_evaluation_attempts
            THEN "regenerate_code"
       ELSE "review_code"

should_regenerate_or_review(st) ==
    LET evaluation_result == st.evaluation_result
        has_result == ~IsNone(evaluation_result)
        has_missing_errors == has_result /\ Len(evaluation_result.missing_errors) > 0
    IN IF st.current_step = "regenerate" THEN "regenerate_code"
       ELSE IF has_result /\ evaluation_result.valid THEN "review_code"
       ELSE IF has_missing_errors /\ st.evaluation_attempts < st.max_evaluation_attempts
            THEN "regenerate_code"
       ELSE "review_code"

(* ----------------- core/student_response_evaluator.py ------------------ *)
\* a key the dictionary does not hold
Absent == -1
\* largest "Identified Count" a reply reports
MaxIdentified == 2

\* review text: a sequence of lines, each a sequence of tokens
LineInside == <<"word", "sp", "Line", "digit", "sp", "colon">>
LineNoColon == <<"Line", "sp", "digit", "sp", "word">>
LineNoDigit == <<"Line", "sp", "colon", "word">>
LineWords == <<"word", "sp", "word">>
LineBlank == <<"sp">>
ReviewTexts == {<<LineBlank>>, <<LineNoColon, LineNoDigit>>, <<LineWords, LineInside>>}

\* first index >= i of `line` whose token differs from tok
RECURSIVE SkipToken(_, _, _)
SkipToken(line, i, tok) ==
    IF i <= Len(line) /\ line[i] = tok THEN SkipToken(line, i + 1, tok) ELSE i

\* (?:Line)\s*\d+\s*[:] matched at position i
PatternAt(line, i) ==
    /\ i <= Len(line)
    /\ line[i] = "Line"
    /\ LET d == SkipToken(line, i + 1, "sp")
           e == SkipToken(line, d, "digit")
           c == SkipToken(line, e, "sp")
       IN e > d /\ c <= Len(line) /\ line[c] = "colon"

\* valid_line_pattern.search(line)
PatternSearch(line) == \E i \in 1..Len(line) : PatternAt(line, i)

\* student_review.strip() is empty
IsBlankText(text) == \A i \in 1..Len(text) : \A j \in 1..Len(text[i]) : text[i][j] = "sp"

\* variant: only the blank check, the line pattern is not searched
validate_review_format_BlankOnly(text) == ~IsBlankText(text)

validate_review_format(text) ==
    IF IsBlankText(text) THEN FALSE
    ELSE \E i \in 1..Len(text) : PatternSearch(text[i])

\* replies of the review backend; a json reply carries the entries read by
\* _process_enhanced_analysis; problem_lists tells whether it holds both the
\* "Identified Problems" and the "Missed Problems" list
JsonOptions ==
    {[tp |-> Absent, rs |-> FALSE, pl |-> TRUE],
     [tp |-> 2, rs |-> FALSE, pl |-> TRUE],
     [tp |-> 2, rs |-> TRUE, pl |-> TRUE],
     [tp |-> Absent, rs |-> FALSE, pl |-> FALSE]}

\* the entries of both problem lists are empty lists in these replies
AnalysisReplies ==
    {[kind |-> k, identified_count |-> Absent, total_problems |-> Absent,
      review_sufficient |-> FALSE, problem_lists |-> FALSE,
      identified_problems |-> <<>>, missed_problems |-> <<>>]
        : k \in {"raise", "empty", "garbage"}}
    \cup {[kind |-> "json", identified_count |-> ic, total_problems |-> o.tp,
           review_sufficient |-> o.rs, problem_lists |-> o.pl,
           identified_problems |-> <<>>, missed_problems |-> <<>>]
        : ic \in 0..MaxIdentified, o \in JsonOptions}

\* ACCURACY_SCORE / MEANINGFUL_SCORE defaults, in hundredths
AccuracyThreshold == 70
MeaningfulThreshold == 60

\* an entry of "Identified Problems" / "Missed Problems" with its two scores
Scored(accuracy, meaningfulness) ==
    [Accuracy |-> accuracy, Meaningfulness |-> meaningfulness]

\* score pairs at the thresholds, just below either one, and well above
ScoreEntries ==
    {Scored(AccuracyThreshold, MeaningfulThreshold),
     Scored(AccuracyThreshold - 1, MeaningfulThreshold),
     Scored(AccuracyThreshold, MeaningfulThreshold - 1),
     Scored(90, 80)}

ScoredLists == {<<>>} \cup {<<e>> : e \in ScoreEntries}

\* JSON replies whose problem lists carry scored entries
ScoredAnalysisReplies ==
    {[kind |-> "json", identified_count |-> ic, total_problems |-> Absent,
      review_sufficient |-> FALSE, problem_lists |-> TRUE,
      identified_problems |-> ip, missed_problems |-> mp]
        : ic \in 0..MaxIdentified, ip \in ScoredLists, mp \in ScoredLists}

\* the fallback branch always stores "Missed Problems", so a reply without
\* any JSON yields a dictionary holding neither count and no
\* "Identified Problems"
_extract_json_from_text(reply) ==
    IF reply.kind = "garbage"
    THEN [identified_count |-> Absent, total_problems |-> Absent,
          review_sufficient |-> FALSE, problem_lists |-> FALSE,
          identified_problems |-> <<>>, missed_problems |-> <<>>]
    ELSE [identified_count |-> reply.identified_count,
          total_problems |-> reply.total_problems,
          review_sufficient |-> reply.review_sufficient,
          problem_lists |-> reply.problem_lists,
          identified_problems |-> reply.identified_problems,
          missed_problems |-> reply.missed_problems]

\* identified_count / total * 100, kept exact as a fraction
Percentage(count, total) ==
    IF total > 0 THEN [num |-> count * 100, den |-> total] ELSE [num |-> 100, den |-> 1]

_process_enhanced_analysis(analysis_data, known_count) ==
    LET identified_count == IF analysis_data.identified_count = Absent THEN 0
                            ELSE analysis_data.identified_count
        total_problems == IF analysis_data.total_problems = Absent THEN known_count
                          ELSE analysis_data.total_problems
    IN [IdentifiedCount |-> identified_count,
        TotalProblems |-> total_problems,
        IdentifiedPercentage |-> Percentage(identified_count, total_problems),
        ProblemLists |-> analysis_data.problem_lists,
        IdentifiedProblems |-> analysis_data.identified_problems,
        MissedProblems |-> analysis_data.missed_problems,
        ReviewSufficient |-> analysis_data.review_sufficient,
        review_sufficient |-> FALSE,
        OriginalErrorCount |-> Absent,
        original_error_count |-> Absent]

evaluate_review(hasLlm, reply, known_count) ==
    IF ~hasLlm THEN NoLlmStr
    ELSE IF reply.kind \in {"raise", "empty"} THEN EmptyStr
    ELSE _process_enhanced_analysis(_extract_json_from_text(reply), known_count)

\* generate_comparison_report: "" when the backend is missing or raises
ReportReplies == {"ok", "raise"}
NoReport == "None"
\* the prompt builder takes len() of the problem lists and raises on False
generate_comparison_report(hasLlm, reportReply, problem_lists) ==
    IF hasLlm /\ problem_lists /\ reportReply = "ok" THEN "report" ELSE ""

(* --------------- workflow/node.py: analyze_review_node ----------------- *)
ReviewAttempt(student_review, iteration_number) ==
    [student_review |-> student_review, iteration_number |-> iteration_number,
     analysis |-> EmptyDict, targeted_guidance |-> FALSE]

Last(s) == s[Len(s)]

\* the review_sufficient flag the node derives from the identified count
NodeSufficient(identified_count, original_error_count) ==
    identified_count = original_error_count

analyze_review_node(st, hasLlm, reply) ==
    IF st.review_history = <<>> THEN [st EXCEPT !.error = "no_review_submitted"]
    ELSE IF IsNone(st.code_snippet)
         THEN [st EXCEPT !.error = "no_code_snippet_available"]
    ELSE
    LET n == Len(st.review_history)
        known_count == Len(st.code_snippet.raw_errors)
        original_error_count == st.original_error_count
        analysis == evaluate_review(hasLlm, reply, known_count)
    IN IF IsStr(analysis)
       THEN \* indexing (count > 0) or .get (count = 0) on a str raises
            IF original_error_count > 0
            THEN [st EXCEPT !.error = "Error analyzing review"]
            ELSE [st EXCEPT !.error = "Error analyzing review",
                            !.review_history[n].analysis = analysis]
       ELSE
       LET sufficient == original_error_count > 0
                         /\ NodeSufficient(analysis.IdentifiedCount, original_error_count)
           updated ==
               IF original_error_count > 0
               THEN [analysis EXCEPT
                       !.TotalProblems = original_error_count,
                       !.OriginalErrorCount = original_error_count,
                       !.IdentifiedPercentage =
                            Percentage(analysis.IdentifiedCount, original_error_count),
                       !.review_sufficient = IF sufficient THEN TRUE ELSE @,
                       !.ReviewSufficient = IF sufficient THEN TRUE ELSE @]
               ELSE analysis
           review_sufficient == updated.review_sufficient
           guided == ~review_sufficient /\ st.current_iteration < st.max_iterations
       IN IF guided /\ ~updated.ProblemLists
          THEN \* create_feedback_prompt iterates over False; the handler of
               \* generate_targeted_guidance then reads the unbound prompt
               [st EXCEPT
                  !.review_history[n].analysis = updated,
                  !.review_sufficient = review_sufficient,
                  !.error = "Error analyzing review"]
          ELSE [st EXCEPT
                  !.review_history[n].analysis = updated,
                  !.review_history[n].targeted_guidance = guided,
                  !.review_sufficient = review_sufficient,
                  !.current_iteration = st.current_iteration + 1,
                  !.current_step = "analyze"]

(* ------------------------ workflow/manager.py -------------------------- *)
\* reached only after an analysis that stored a dictionary: the call is made
\* when the iteration counter passed the limit or the review is sufficient
_generate_review_feedback(st, hasLlm, reportReply) ==
    IF st.review_history = <<>> THEN st
    ELSE IF st.comparison_report \notin {NoReport, ""} \/ IsNone(st.evaluation_result)
         THEN st
    ELSE
    LET n == Len(st.review_history)
        latest == st.review_history[n].analysis
    IN IF "IdentifiedCount" \notin DOMAIN latest
       THEN [st EXCEPT !.comparison_report = "degraded"]
       ELSE [st EXCEPT
               !.review_history[n].analysis.original_error_count =
                    IF st.original_error_count > 0 /\ @ = Absent
                    THEN st.original_error_count ELSE @,
               !.comparison_report = generate_comparison_report(hasLlm, reportReply,
                                                                 latest.ProblemLists)]

\* the condition under which submit_review takes the summary path
SummaryPath(st) == st.current_iteration > st.max_iterations \/ st.review_sufficient

submit_review(st, hasLlm, student_review, reply, reportReply) ==
    LET appended == [st EXCEPT !.review_history =
                        Append(@, ReviewAttempt(student_review, st.current_iteration))]
        updated_state == analyze_review_node(appended, hasLlm, reply)
    IN IF SummaryPath(updated_state)
       THEN _generate_review_feedback(updated_state, hasLlm, reportReply)
       ELSE updated_state

\* 1 when the backend object exists (the call is made), else 0
Invoked(hasLlm) == IF hasLlm THEN 1 ELSE 0

\* llm.invoke calls made by one submit_review: the analysis call, the
\* guidance call (its metadata lookup of "Accuracy Percentage" fails before
\* the call when the node did not rewrite the analysis) and the report call
SubmitCalls(before, after, hasLlm) ==
    LET n == Len(after.review_history)
        analysed == after.current_iteration > before.current_iteration
        guidance == analysed /\ after.review_history[n].targeted_guidance
                    /\ before.original_error_count > 0
        report == analysed /\ SummaryPath(after)
                  /\ after.review_history[n].analysis.ProblemLists
                  /\ before.comparison_report \in {NoReport, ""}
                  /\ ~IsNone(before.evaluation_result)
    IN Invoked(hasLlm) * (1 + (IF guidance THEN 1 ELSE 0) + (IF report THEN 1 ELSE 0))

(* -------------- workflow/conditions.py: review routing ----------------- *)
\* the function reads analysis.get("identified_count", 0) and
\* analysis.get("total_problems", 0); the stored dictionary holds the
\* translated keys only, so both reads return the default
RawCountDefault == 0

\* variant: the iteration limit is not consulted
should_continue_review_NoLimit(st) ==
    LET has_latest == st.review_history # <<>>
        identified_count == RawCountDefault
        total_problems == RawCountDefault
    IN IF has_latest /\ IsStr(Last(st.review_history).analysis)
       THEN "raises"
       ELSE IF has_latest /\ identified_count = total_problems /\ total_problems > 0
       THEN "generate_summary"
       ELSE IF st.review_sufficient THEN "generate_summary"
       ELSE "continue_review"

should_continue_review(st) ==
    LET has_latest == st.review_history # <<>>
        identified_count == RawCountDefault
        total_problems == RawCountDefault
    IN IF has_latest /\ IsStr(Last(st.review_history).analysis)
       THEN "raises"   \* analysis.get on a str
       ELSE IF has_latest
          /\ ((identified_count = total_problems /\ total_problems > 0)
              \/ st.current_iteration > st.max_iterations)
       THEN "generate_summary"
       ELSE IF st.review_sufficient THEN "generate_summary"
       ELSE "continue_review"

\* the state the routing function leaves behind (it sets review_sufficient)
should_continue_review_state(st) ==
    IF should_continue_review(st) = "generate_summary"
       /\ st.current_iteration > st.max_iterations
    THEN [st EXCEPT !.review_sufficient = TRUE]
    ELSE st

(* -------------------- ui/components/code_display.py -------------------- *)
\* all_errors_found as computed by _handle_review_submission
all_errors_found(st) ==
    /\ st.review_history # <<>>
    /\ "IdentifiedCount" \in DOMAIN Last(st.review_history).analysis
    /\ LET a == Last(st.review_history).analysis
       IN a.IdentifiedCount = a.TotalProblems /\ a.TotalProblems > 0

\* a non-empty str stored as analysis makes review_analysis.get raise
RenderRaises(st) ==
    st.review_history # <<>> /\ Last(st.review_history).analysis = NoLlmStr

\* what _handle_review_submission shows: the review input, the success
\* message, or the iterations-completed warning
\* variant: the iteration limit is tested before the success condition
ReviewOutcome_LimitFirst(st) ==
    IF RenderRaises(st) THEN "exception"
    ELSE IF st.current_iteration <= st.max_iterations /\ ~st.review_sufficient
            /\ ~all_errors_found(st)
         THEN "input"
    ELSE IF st.current_iteration > st.max_iterations THEN "timeout"
    ELSE "success"

ReviewOutcome(st) ==
    IF RenderRaises(st) THEN "exception"
    ELSE IF st.current_iteration <= st.max_iterations /\ ~st.review_sufficient
            /\ ~all_errors_found(st)
         THEN "input"
    ELSE IF st.review_sufficient \/ all_errors_found(st) THEN "success"
    ELSE "timeout"

(* ------------------------------ state ---------------------------------- *)
VARIABLES
    state,          \* the WorkflowState object held in st.session_state
    llm,            \* CodeGenerator.llm / CodeEvaluationAgent.llm is set
    review_llm,     \* StudentResponseEvaluator.llm is set
    pc,             \* position of the generate-tab handler / review tab
    ui_attempts,    \* local evaluation_attempts of render_generate_tab
    session_error,  \* st.session_state.error
    ui_event        \* the last user-interface step taken

vars == <<state, llm, review_llm, pc, ui_attempts, session_error, ui_event>>

WorkflowState(max_evaluation_attempts, max_iterations) ==
    [current_step |-> "generate",
     selected_error_categories |-> FALSE,
     selected_specific_errors |-> <<>>,
     code_snippet |-> NoneVal,
     review_history |-> <<>>,
     current_iteration |-> 1,
     max_iterations |-> max_iterations,
     review_sufficient |-> FALSE,
     comparison_report |-> NoReport,
     error |-> NoError,
     evaluation_result |-> NoneVal,
     evaluation_attempts |-> 0,
     max_evaluation_attempts |-> max_evaluation_attempts,
     original_error_count |-> 0]

\* op: the handler step; text: the review typed in; reply: the kind of
\* backend reply the step consumed; calls: llm.invoke calls made by the step
Event(op, text, reply, calls) ==
    [op |-> op, text |-> text, reply |-> reply, calls |-> calls]

InitOver(evalBudgets, iterBudgets) ==
    /\ \E me \in evalBudgets, mi \in iterBudgets : state = WorkflowState(me, mi)
    /\ llm \in BOOLEAN
    /\ review_llm \in BOOLEAN
    /\ pc = "idle"
    /\ ui_attempts = 0
    /\ session_error = NoError
    /\ ui_event = Event("none", <<>>, "none", 0)

(* ---------- ui/components/code_generator.py: render_generate_tab ------- *)
ClickGenerateOver(genReplies, catalogues) ==
    /\ pc = "idle"
    /\ \E sel \in Selections, catalogue \in catalogues, genReply \in genReplies :
         LET st0 == [state EXCEPT
                       !.selected_error_categories = sel.categories,
                       !.selected_specific_errors = sel.specific,
                       !.current_step = "generate",
                       !.evaluation_attempts = 0]
             st1 == generate_code_node(st0, llm, catalogue, genReply)
         IN /\ state' = st1
            /\ pc' = IF st1.error # NoError THEN "halted" ELSE "evaluate"
            /\ ui_event' = Event("generate", <<>>,
                                 IF llm /\ st1.error = NoError THEN genReply ELSE "none",
                                 IF st1.error # NoError THEN 0 ELSE Invoked(llm))
    /\ UNCHANGED <<llm, review_llm, ui_attempts, session_error>>

EvaluateStepOver(evalReplies) ==
    /\ pc \in {"evaluate", "reevaluate"}
    /\ \E reply \in evalReplies :
         LET st1 == evaluate_code_node(state, llm, reply)
         IN /\ state' = st1
            /\ IF st1.error # NoError
               THEN pc' = "halted" /\ ui_attempts' = ui_attempts
               ELSE /\ pc' = "loop"
                    /\ ui_attempts' = IF pc = "evaluate" THEN 1 ELSE ui_attempts + 1
            /\ ui_event' = Event("evaluate", <<>>,
                                 IF llm THEN reply.kind ELSE "none", Invoked(llm))
    /\ UNCHANGED <<llm, review_llm, session_error>>

\* the while condition of the regeneration loop
LoopCondition ==
    /\ ui_attempts < state.max_evaluation_attempts
    /\ should_regenerate_or_review(state) = "regenerate_code"

RegenerateStepOver(regenReplies, catalogues) ==
    /\ pc = "loop"
    /\ LoopCondition
    /\ \E catalogue \in catalogues, reply \in regenReplies :
         LET st1 == regenerate_code_node([state EXCEPT !.current_step = "regenerate"],
                                         llm, catalogue, reply)
         IN /\ state' = st1
            /\ pc' = IF st1.error # NoError THEN "halted" ELSE "reevaluate"
            /\ ui_event' = Event("regenerate", <<>>, "none", Invoked(llm))
    /\ UNCHANGED <<llm, review_llm, ui_attempts, session_error>>

FinalizeStep ==
    /\ pc = "loop"
    /\ ~LoopCondition
    /\ state' = [state EXCEPT !.current_step = "review",
                              !.evaluation_attempts = ui_attempts]
    /\ pc' = "review"
    /\ ui_event' = Event("finalize", <<>>, "none", 0)
    /\ UNCHANGED <<llm, review_llm, ui_attempts, session_error>>

(* ------- ui/components/code_display.py: _process_student_review -------- *)
\* render_review_tab shows the review tab whenever a code snippet exists,
\* also after the generate handler returned on an error
SubmitStep ==
    /\ pc \in {"review", "halted"}
    /\ ~IsNone(state.code_snippet)
    /\ ReviewOutcome(state) = "input"
    /\ Len(state.review_history) < MaxSubmissions
    /\ \E text \in ReviewTexts, reply \in AnalysisReplies, reportReply \in ReportReplies :
         /\ IF ~validate_review_format(text)
            THEN /\ state' = state
                 /\ session_error' = "invalid_review_format"
                 /\ ui_event' = Event("submit", text, "none", 0)
            ELSE LET updated_state == submit_review(state, review_llm, text, reply, reportReply)
                 IN /\ state' = updated_state
                    /\ ui_event' = Event("submit", text,
                                         IF review_llm THEN reply.kind ELSE "none",
                                         SubmitCalls(state, updated_state, review_llm))
                    /\ session_error' = IF updated_state.error # NoError
                                        THEN updated_state.error ELSE session_error
    /\ UNCHANGED <<llm, review_llm, pc, ui_attempts>>

(* ----------------------- the whole exercise ---------------------------- *)
\* verifier replies of the whole-exercise specification: a failed call, a
\* reply without JSON, every defect found, one found and one missing
CoreEvalReplies ==
    {[kind |-> "raise", found |-> <<>>, missing |-> <<>>],
     [kind |-> "garbage", found |-> <<>>, missing |-> <<>>],
     [kind |-> "json", found |-> <<K1, K2>>, missing |-> <<>>],
     [kind |-> "json", found |-> <<K1>>, missing |-> <<K2>>]}

Init == InitOver({ExerciseEvalBudget}, 1..MaxIterBudget)
ClickGenerate == ClickGenerateOver({"code"}, CatalogueOutputs)
EvaluateStep == EvaluateStepOver(CoreEvalReplies)
RegenerateStep == RegenerateStepOver({"code", "raise"}, CatalogueOutputs)

Next ==
    \/ ClickGenerate
    \/ EvaluateStep
    \/ RegenerateStep
    \/ FinalizeStep
    \/ SubmitStep

Spec == Init /\ [][Next]_vars

(* ------------- the generate / verify handler on its own ---------------- *)
InitAdvance == InitOver(1..MaxEvalBudget, {MaxIterBudget})
ClickGenerateAdvance == ClickGenerateOver(GenReplies, CatalogueOutputsAdvance)
EvaluateStepAdvance == EvaluateStepOver(EvalReplies)
RegenerateStepAdvance == RegenerateStepOver(RegenReplies, CatalogueOutputsAdvance)

NextAdvance ==
    \/ ClickGenerateAdvance
    \/ EvaluateStepAdvance
    \/ RegenerateStepAdvance
    \/ FinalizeStep

SpecAdvance == InitAdvance /\ [][NextAdvance]_vars

(* ============================ properties =============================== *)
\* the state right after evaluate_code_node stored a result
AfterEvaluate == ui_event.op = "evaluate" /\ state.error = NoError

\* the identity keys of the requested errors, in request order
RequestedKeys ==
    LET requested == _extract_requested_errors(state)
    IN [i \in 1..Len(requested) |-> IdentityKey(requested[i])]

\* found non-empty and missing non-empty
PartialResult(st) ==
    /\ ~IsNone(st.evaluation_result)
    /\ st.evaluation_result.found_errors # <<>>
    /\ st.evaluation_result.missing_errors # <<>>

\* C1: in every state whose evaluation_attempts has reached
\* max_evaluation_attempts, whatever the evaluation result says, the step
\* chosen after evaluate is review and the routing function does not answer
\* regenerate_code.
C1_ExhaustedBudgetGoesToReview ==
    (AfterEvaluate /\ state.evaluation_attempts >= state.max_evaluation_attempts)
        => /\ state.current_step = "review"
           /\ should_regenerate_or_review(state) = "review_code"

C1_Witness ==
    /\ AfterEvaluate
    /\ state.max_evaluation_attempts >= 2
    /\ state.evaluation_attempts = state.max_evaluation_attempts
    /\ state.evaluation_result.missing_errors # <<>>
    /\ state.current_step = "review"

\* C2: during the generate/verify loop of one click the attempt counter never
\* exceeds max_evaluation_attempts and no step of the loop lowers it.
C2_AttemptsBoundedAndNeverReset ==
    [][(pc \in {"evaluate", "loop", "reevaluate"})
          => (state'.evaluation_attempts <= state'.max_evaluation_attempts
              /\ state'.evaluation_attempts >= state.evaluation_attempts)]_vars

\* C3: after a verifier reply holding no JSON object the stored result lists
\* every requested error as missing and is not valid, no error is recorded,
\* and the step is regenerate while the attempt counter is below the budget.
C3_UnparsableReplyForcesRegeneration ==
    (ui_event.op = "evaluate" /\ ui_event.reply = "garbage")
        => /\ state.error = NoError
           /\ state.evaluation_result.missing_errors = RequestedKeys
           /\ ~state.evaluation_result.Valid
           /\ (state.evaluation_attempts < state.max_evaluation_attempts
                  => state.current_step = "regenerate")

\* C4: after an evaluation (here: one whose verifier reply was parsed)
\* found_errors and missing_errors together list each requested identity key
\* exactly once and nothing else.
C4_FoundMissingPartitionRequested ==
    (AfterEvaluate /\ ui_event.reply = "json")
        => LET listed == state.evaluation_result.found_errors
                         \o state.evaluation_result.missing_errors
           IN /\ Range(listed) = Range(RequestedKeys)
              /\ \A i, j \in 1..Len(listed) : listed[i] = listed[j] => i = j

\* C5: after an evaluation (here: one whose verifier reply was parsed) the
\* stored validity is true exactly when missing_errors is empty and
\* found_errors has as many entries as were requested, and the validity entry
\* read by the routing function carries the same value.
C5_ValidityIsExactCount ==
    (AfterEvaluate /\ ui_event.reply = "json")
        => LET r == state.evaluation_result
               exact == r.missing_errors = <<>>
                        /\ Len(r.found_errors) = Len(RequestedKeys)
           IN /\ r.Valid <=> exact
              /\ r.valid <=> r.Valid

\* C6 as stated: an evaluation entered with evaluation_attempts below
\* max_evaluation_attempts that finds some but not all requested errors
\* leaves the step at regenerate.
C6_PartialBelowBudgetOnEntry ==
    [][(pc \in {"evaluate", "reevaluate"}
        /\ state.evaluation_attempts < state.max_evaluation_attempts
        /\ state'.error = NoError
        /\ PartialResult(state'))
          => state'.current_step = "regenerate"]_vars

\* C6: an evaluation that finds some but not all requested errors and whose
\* attempt counter, this evaluation included, is below max_evaluation_attempts
\* leaves the step at regenerate, and the routing function answers
\* regenerate_code.
C6_PartialBelowBudgetRegenerates ==
    (AfterEvaluate /\ PartialResult(state)
     /\ state.evaluation_attempts < state.max_evaluation_attempts)
        => /\ state.current_step = "regenerate"
           /\ should_regenerate_or_review(state) = "regenerate_code"

C6_Witness ==
    /\ AfterEvaluate
    /\ PartialResult(state)
    /\ state.evaluation_attempts = 1
    /\ state.max_evaluation_attempts = 3
    /\ state.current_step = "regenerate"

\* the state right after a submission that passed the format check and was
\* analysed into a dictionary
AfterAnalysis ==
    /\ ui_event.op = "submit"
    /\ validate_review_format(ui_event.text)
    /\ state.review_history # <<>>
    /\ "IdentifiedCount" \in DOMAIN Last(state.review_history).analysis

\* the stored analysis reports every problem identified
AllIdentified(st) ==
    LET a == Last(st.review_history).analysis
    IN a.IdentifiedCount = a.TotalProblems /\ a.TotalProblems > 0

\* C7: when the analysis of a submission reports identified count equal to
\* total problems, above zero, the same submit_review call completes the run:
\* review_sufficient is set, the summary path is taken, routing answers
\* generate_summary and no further review is requested.
C7_AllIdentifiedCompletesRun ==
    (AfterAnalysis /\ AllIdentified(state))
        => /\ state.review_sufficient
           /\ SummaryPath(state)
           /\ should_continue_review(state) = "generate_summary"
           /\ ReviewOutcome(state) # "input"

\* C8: a review on the last allowed attempt whose analysis reports every
\* problem identified is shown as success, not as the iterations-completed
\* warning, and routing answers generate_summary.
C8_PerfectFinalReviewIsSuccess ==
    (AfterAnalysis /\ AllIdentified(state)
     /\ Last(state.review_history).iteration_number = state.max_iterations)
        => /\ ReviewOutcome(state) = "success"
           /\ should_continue_review(state) = "generate_summary"

C8_Witness ==
    /\ AfterAnalysis
    /\ AllIdentified(state)
    /\ Len(state.review_history) >= 2
    /\ Last(state.review_history).iteration_number = state.max_iterations
    /\ state.current_iteration > state.max_iterations
    /\ ReviewOutcome(state) = "success"

\* the analyses a stored review attempt can hold
StoredAnalyses ==
    {EmptyDict}
    \cup {_process_enhanced_analysis(_extract_json_from_text(r), 0)
            : r \in {x \in AnalysisReplies : x.kind \in {"json", "garbage"}}}

\* C9: once current_iteration exceeds max_iterations the routing after
\* analyze answers generate_summary, whatever review_sufficient and the
\* latest analysis hold, and submit_review takes the summary path.
C9_PastLimitAlwaysSummary ==
    state.current_iteration > state.max_iterations
        => /\ SummaryPath(state)
           /\ should_continue_review(state) = "generate_summary"
           /\ \A rs \in BOOLEAN, a \in StoredAnalyses :
                should_continue_review(
                    [state EXCEPT !.review_sufficient = rs,
                                  !.review_history[Len(state.review_history)].analysis = a])
                  = "generate_summary"

C9_Witness ==
    /\ state.current_iteration > state.max_iterations
    /\ ~state.review_sufficient
    /\ ~all_errors_found(state)
    /\ should_continue_review(state) = "generate_summary"

\* some line of the text holds Line <N>:
HasLineReference(text) == \E i \in 1..Len(text) : PatternSearch(text[i])

\* C10: a submitted text none of whose lines holds Line <N>: is rejected
\* before any backend call, and the workflow state (review_history,
\* current_iteration, review_sufficient, current_step, error) is unchanged.
C10_RejectedReviewLeavesStateUnchanged ==
    [][(pc \in {"review", "halted"} /\ ui_event'.op = "submit"
        /\ ~HasLineReference(ui_event'.text))
          => (state' = state /\ ui_event'.calls = 0)]_vars

C10_Witness ==
    /\ ui_event.op = "submit"
    /\ ~HasLineReference(ui_event.text)
    /\ ui_event.text # <<LineBlank>>
    /\ session_error = "invalid_review_format"
    /\ Len(state.review_history) = 1
    /\ state.current_iteration = 2

(* ----------------------- errors and later calls ------------------------ *)
\* a call that returned with state.error set left current_step where it was
FailsInPlace(before, after) ==
    after.error # NoError => after.current_step = before.current_step

\* C11: every call of generate_code_node, evaluate_code_node,
\* regenerate_code_node, analyze_review_node or submit_review that is made on
\* a state without an error and returns with state.error set leaves
\* current_step as it was before the call.
C11_ErrorSettingCallKeepsStep ==
    state.error = NoError =>
      /\ \A sel \in Selections, catalogue \in CatalogueOutputs, genReply \in GenReplies :
           LET st0 == [state EXCEPT
                         !.selected_error_categories = sel.categories,
                         !.selected_specific_errors = sel.specific]
           IN FailsInPlace(st0, generate_code_node(st0, llm, catalogue, genReply))
      /\ \A reply \in EvalReplies :
           FailsInPlace(state, evaluate_code_node(state, llm, reply))
      /\ \A catalogue \in CatalogueOutputs, reply \in RegenReplies :
           LET st0 == [state EXCEPT !.current_step = "regenerate"]
           IN FailsInPlace(st0, regenerate_code_node(st0, llm, catalogue, reply))
      /\ \A reply \in AnalysisReplies :
           /\ FailsInPlace(state, analyze_review_node(state, review_llm, reply))
           /\ \A text \in ReviewTexts, reportReply \in ReportReplies :
                FailsInPlace(state, submit_review(state, review_llm, text,
                                                  reply, reportReply))

\* the analysis call of a submitted review failed: the error is recorded
\* and the run is still at the step the handler left it in
C11_Witness ==
    /\ ui_event.op = "submit"
    /\ ui_event.reply = "raise"
    /\ state.error = "Error analyzing review"
    /\ Len(state.review_history) = 1
    /\ state.current_step = "review"

\* C12: once state.error is set, no later step changes current_step,
\* evaluation_attempts, current_iteration, review_history or code_snippet.
C12_ErrorFreezesRun ==
    [][(state.error # NoError)
         => (state'.current_step = state.current_step
             /\ state'.evaluation_attempts = state.evaluation_attempts
             /\ state'.current_iteration = state.current_iteration
             /\ state'.review_history = state.review_history
             /\ state'.code_snippet = state.code_snippet)]_vars

(* --------------------------- generation -------------------------------- *)
\* the generate step ended with a snippet holding no code: the reply had no
\* code block, or no backend was there to give one
GeneratedNoCode ==
    /\ ui_event.op = "generate"
    /\ ~IsNone(state.code_snippet)
    /\ state.code_snippet.code = NoCode

\* C13: a generation whose reply yields no code (backend missing included)
\* sets state.error, does not move to "evaluate", and the handler stops.
C13_NoCodeIsGenerationFailure ==
    GeneratedNoCode =>
      (state.error # NoError /\ state.current_step # "evaluate" /\ pc = "halted")

\* C16: after a generate step that set no error, original_error_count is
\* the length of the requested list stored in the snippet; with specific
\* picks the list is the picks, with categories it is what the catalogue
\* returned, cut to the required count when the catalogue returned more.
C16_CountIsRequestedLength ==
    [][(pc = "idle" /\ state'.error = NoError)
         => (state'.original_error_count = Len(state'.code_snippet.raw_errors)
             /\ state'.code_snippet.expected_error_count = state'.original_error_count
             /\ IF Len(state'.selected_specific_errors) > 0
                THEN state'.code_snippet.raw_errors = state'.selected_specific_errors
                ELSE \E catalogue \in CatalogueOutputsAdvance :
                       state'.code_snippet.raw_errors =
                         IF Len(catalogue) > RequiredErrorCount
                         THEN SubSeq(catalogue, 1, RequiredErrorCount)
                         ELSE catalogue)]_vars

\* the catalogue returned five entries for the selected categories: four
\* are kept and counted
C16_Witness ==
    /\ ui_event.op = "generate"
    /\ state.error = NoError
    /\ state.selected_error_categories
    /\ state.code_snippet.raw_errors = <<E5, E4, E3, E2>>
    /\ state.original_error_count = RequiredErrorCount

\* categories were selected and the catalogue returned nothing for them
ZeroSelectable ==
    /\ ui_event.op = "generate"
    /\ state.selected_error_categories
    /\ state.selected_specific_errors = <<>>
    /\ (IsNone(state.code_snippet) \/ state.code_snippet.raw_errors = <<>>)

\* C17: when the selected categories yield no defect at all, the generate
\* step sets state.error and the run does not go on to "evaluate".
C17_EmptyCatalogueHaltsRun ==
    ZeroSelectable =>
      (state.error # NoError /\ state.current_step # "evaluate" /\ pc = "halted")

\* C18: once a generate step has stored the snippet, no later step
\* (evaluate, regenerate and its fallback, review analysis) changes the
\* requested list or original_error_count.
C18_RequestedDefectsFixed ==
    [][(pc # "idle" /\ ~IsNone(state.code_snippet))
         => (state'.original_error_count = state.original_error_count
             /\ ~IsNone(state'.code_snippet)
             /\ state'.code_snippet.raw_errors = state.code_snippet.raw_errors)]_vars

(* ------------------------ failed backend calls ------------------------- *)
\* C14: a review whose analysis reply holds no JSON is stored with an
\* identified count of 0 and review_sufficient false, state.error stays
\* unset and current_iteration advances by one.
C14_UnparsableAnalysisIsSafeDefault ==
    [][(state.error = NoError /\ ui_event'.op = "submit"
        /\ ui_event'.reply = "garbage")
          => (Last(state'.review_history).analysis.IdentifiedCount = 0
              /\ ~state'.review_sufficient
              /\ state'.error = NoError
              /\ state'.current_iteration = state.current_iteration + 1)]_vars

\* C15: a verification or analysis call that raises (a timeout included)
\* leaves the same state as a reply that cannot be parsed: the same stored
\* result, state.error unset, the same counters.
\* Compared on the calls the handlers make, for every pair of such replies.
C15_RaisedCallSameAsParseFailure ==
    /\ (pc \in {"evaluate", "reevaluate"} /\ llm) =>
          \A raised, unparsable \in EvalReplies :
             (raised.kind = "raise" /\ unparsable.kind = "garbage") =>
                LET a == evaluate_code_node(state, llm, raised)
                    b == evaluate_code_node(state, llm, unparsable)
                IN a = b /\ a.error = NoError
    /\ (pc = "review" /\ ReviewOutcome(state) = "input" /\ review_llm
         /\ state.error = NoError) =>
          \A raised, unparsable \in AnalysisReplies, text \in ReviewTexts,
             reportReply \in ReportReplies :
             (raised.kind = "raise" /\ unparsable.kind = "garbage") =>
                LET a == submit_review(state, review_llm, text, raised, reportReply)
                    b == submit_review(state, review_llm, text, unparsable, reportReply)
                IN a = b /\ a.error = NoError

(* ------------------------- review bookkeeping -------------------------- *)
\* C19: once review_sufficient is true it stays true: also a further
\* submit_review whose analysis identifies fewer errors leaves it true.
\* Stated on the call itself, for every review text and every reply.
C19_SufficientIsSticky ==
    state.review_sufficient =>
      \A text \in ReviewTexts, reply \in AnalysisReplies,
         reportReply \in ReportReplies :
           submit_review(state, review_llm, text, reply, reportReply).review_sufficient

\* C20: every stored analysis has TotalProblems equal to
\* original_error_count, also when that count is 0, and its percentage is
\* computed from original_error_count.
C20_TotalsFollowOriginalCount ==
    AfterAnalysis =>
      LET a == Last(state.review_history).analysis
      IN /\ a.TotalProblems = state.original_error_count
         /\ a.IdentifiedPercentage =
              Percentage(a.IdentifiedCount, state.original_error_count)

(* ------------------------ the stored analysis -------------------------- *)
\* C21: every analysis stored in review_history has an identified count
\* equal to the number of entries of its "Identified Problems" list,
\* whatever the reply reported.
C21_CountIsListLength ==
    \A i \in 1..Len(state.review_history) :
       LET a == state.review_history[i].analysis
       IN "IdentifiedCount" \in DOMAIN a =>
            (a.ProblemLists /\ a.IdentifiedCount = Len(a.IdentifiedProblems))

\* both scores of an entry reach their thresholds (bounds inclusive)
MeetsThresholds(e) ==
    e.Accuracy >= AccuracyThreshold /\ e.Meaningfulness >= MeaningfulThreshold

\* C22: a problem is stored as identified exactly when its accuracy is at
\* least the accuracy threshold and its meaningfulness at least the
\* meaningfulness threshold; a pair exactly at the thresholds is identified,
\* a pair below either one is missed.  Stated on the analysis of every
\* scored reply to a review submitted in the current state.
C22_IdentifiedIffThresholdsMet ==
    (pc = "review" /\ ReviewOutcome(state) = "input" /\ review_llm) =>
      \A reply \in ScoredAnalysisReplies, text \in ReviewTexts :
         LET after == submit_review(state, review_llm, text, reply, "ok")
             a == Last(after.review_history).analysis
         IN /\ \A i \in 1..Len(a.IdentifiedProblems) :
                  MeetsThresholds(a.IdentifiedProblems[i])
            /\ \A i \in 1..Len(a.MissedProblems) :
                  ~MeetsThresholds(a.MissedProblems[i])

(* --------------------------- backend calls ----------------------------- *)
\* C23: no step (generate, evaluate, regenerate, submit of a review)
\* invokes the text-generation backend more than once.
C23_AtMostOneBackendCall == ui_event.calls <= 1

\* the last submitted review was analysed and the run took the summary path
RunCompleted ==
    /\ AfterAnalysis
    /\ state.current_iteration > Last(state.review_history).iteration_number
    /\ SummaryPath(state)

\* C24: when the run has completed, comparison_report holds a non-empty
\* text, also when the report call failed, and the report step set no error
\* (stated for analyses that hold both problem lists, so that the report
\* prompt can be built and the backend is called).
C24_FailedReportIsTemplated ==
    (RunCompleted /\ Last(state.review_history).analysis.ProblemLists) =>
      (state.comparison_report \notin {NoReport, ""}
       /\ session_error \in {NoError, "invalid_review_format"})

(* --------------------------- clean code -------------------------------- *)
\* the generation reply held an annotated block and no clean block
AnnotatedOnly ==
    /\ ui_event.op = "generate"
    /\ ui_event.reply \in {"tagged", "tagline"}

\* C25: a clean version synthesized from the annotated block has as many
\* lines as the annotated code, and every line without a tag is copied
\* unchanged; no line is dropped.
C25_CleanKeepsEveryLine ==
    AnnotatedOnly =>
      LET code == state.code_snippet.code
          clean_code == state.code_snippet.clean_code
      IN /\ Len(clean_code) = Len(code)
         /\ \A i \in 1..Len(code) : ~HasTag(code[i]) => clean_code[i] = code[i]

(* -------------------------- review history ----------------------------- *)
\* C26: the attempts of review_history carry strictly increasing
\* iteration numbers, after any sequence of submissions, those whose
\* analysis failed included (each submission appends one attempt numbered
\* with current_iteration and leaves the earlier attempts as they are).
C26_HistoryStrictlyIncreasing ==
    \A i \in 1..(Len(state.review_history) - 1) :
       state.review_history[i].iteration_number
         < state.review_history[i + 1].iteration_number

\* the attempts of review_history whose analysis was carried out and stored
AnalysedAttempts ==
    {i \in 1..Len(state.review_history) :
        "IdentifiedCount" \in DOMAIN state.review_history[i].analysis}

\* C27: the review loop is bounded by max_iterations: a review is analysed
\* only while current_iteration <= max_iterations, every analysis raises
\* current_iteration by one, so a run holds at most max_iterations analyses.
C27_AtMostMaxIterationsAnalyses ==
    Cardinality(AnalysedAttempts) <= state.max_iterations

(* ---------------------- verification and routing ----------------------- *)
\* C28: code whose stored evaluation is not valid (the exact-count entry
\* "Valid") goes to review only when the attempt budget is used up.
\* Stated for parsed replies to a non-empty request.
C28_InvalidCodeShippedOnlyWhenExhausted ==
    (AfterEvaluate /\ ui_event.reply = "json"
     /\ _extract_requested_errors(state) # <<>>
     /\ state.current_step = "review"
     /\ ~state.evaluation_result.Valid)
        => state.evaluation_attempts >= state.max_evaluation_attempts

\* C29: review_sufficient is true only if the latest analysis has
\* IdentifiedCount = TotalProblems > 0, in the state a submitted review
\* leaves behind and in the state the routing after analyze_review
\* (should_continue_review) leaves behind: neither the iteration limit nor
\* a flag reported by the backend sets it.
C29_SufficientOnlyWhenAllIdentified ==
    (ui_event.op = "submit" /\ state.review_history # <<>>
     /\ should_continue_review(state) # "raises") =>
       \A st \in {state, should_continue_review_state(state)} :
          st.review_sufficient =>
            ("IdentifiedCount" \in DOMAIN Last(st.review_history).analysis
             /\ AllIdentified(st))

\* C30: after an evaluate_code_node call that set no error, the routing
\* function answers regenerate_code exactly when the node stored
\* current_step = "regenerate", for every verifier reply and every value of
\* evaluation_attempts and max_evaluation_attempts.
C30_NodeAndRoutingAgree ==
    AfterEvaluate =>
      (should_regenerate_or_review(state) = "regenerate_code"
         <=> state.current_step = "regenerate")

\* a completed evaluation whose two validity flags differ: "Valid" is FALSE
\* (too few errors found) while 'valid' is TRUE (nothing reported missing)
C30_Witness ==
    /\ AfterEvaluate
    /\ ~state.evaluation_result.Valid
    /\ state.evaluation_result.valid
    /\ state.current_step = "review"
    /\ should_regenerate_or_review(state) = "review_code"
    /\ state.evaluation_attempts < state.max_evaluation_attempts

====
